---- MODULE Spec2Model ----
(***************************************************************************)
(* Model of src/app.py, the stagflation early-warning dashboard.           *)
(*                                                                         *)
(* One rerun of the script is a refresh cycle: four cached macro fetches   *)
(* (fetch_fred_data), one cached market fetch (fetch_yahoo_data), the      *)
(* macro readings (lines 49-81), the market readings (lines 84-99), the    *)
(* signal evaluation (lines 102-110) and the status table (lines 114-131). *)
(*                                                                         *)
(* Units: every percentage is an integer number of tenths of a percent     *)
(* (6.5 % is 65).  A quotient (a / b - 1) * 100 is kept exactly as the     *)
(* fraction [n |-> 1000 * (a - b), d |-> b] of tenths; d = 0 is NaN.       *)
(* Floating point rounding of the quotients is not modelled.               *)
(* Dates are day numbers; day 0 is 1 January of year 0 and a year has      *)
(* DaysPerYear days.  The clock `now` counts seconds from day 0, 00:00.    *)
(***************************************************************************)
EXTENDS Integers, Sequences, FiniteSets, TLC

(***************************************************************************)
(* Program constants                                                       *)
(***************************************************************************)
TTL == 3600
FredLimit == 25
StableCount == 12
CpiHigh == 65
CpiAccel == 50
GdpLowBelow == 10
UnempHigh == 55
SpreadBelow == 20
YieldHigh == 65
RiseAbove == 20
SpyBelow == 50
CrbAbove == 500
MinRows18mo == 100
TradingYear == 252
Days18mo == 540

FallbackCpi == 30
FallbackGdpGrowth == 40
FallbackUnemp == 44
FallbackFed == 40
FallbackSpread == 10
Fallback10yr == 40
FallbackRise == 5
FallbackSpy == 103
FallbackCrb12mo == 74
FallbackCrbLatest == 3696

\* pd.to_numeric(errors='coerce') turns a non-numeric value into NaN
NaN == -999999

(***************************************************************************)
(* Calendar                                                                *)
(***************************************************************************)
SecondsPerDay == 86400
DaysPerYear == 365

\* datetime.now().date()
DateOf(t) == t \div SecondsPerDay
\* today.replace(month=1, day=1)
Jan1(day) == DaysPerYear * (day \div DaysPerYear)

(***************************************************************************)
(* Bounds of the model                                                     *)
(***************************************************************************)
\* the clock starts on 31 December of year 0, at 22:30
StartClock == (DaysPerYear - 1) * SecondsPerDay + 81000
TickStep == 1800
MaxTicks == 3
FewRows == 2
\* thirteen months, in days
ThirteenMonths == DaysPerYear + 30

(***************************************************************************)
(* Floating point values                                                   *)
(***************************************************************************)
Frac(n, d) == [n |-> n, d |-> d]
NaNFrac == Frac(0, 0)
OfTenths(k) == Frac(k, 1)

\* (a / b - 1) * 100, in tenths of a percent
PctChange(a, b) ==
  IF a = NaN \/ b = NaN \/ b = 0 THEN NaNFrac ELSE Frac(1000 * (a - b), b)

\* comparisons of a float with a literal; every comparison with NaN is False
NumGt(v, k) == v # NaN /\ v > k
NumLt(v, k) == v # NaN /\ v < k
NumSub(a, b) == IF a = NaN \/ b = NaN THEN NaN ELSE a - b
FracGt(x, k) == x.d > 0 /\ x.n > k * x.d
FracLt(x, k) == x.d > 0 /\ x.n < k * x.d
FracEq(x, y) == x.d > 0 /\ y.d > 0 /\ x.n * y.d = y.n * x.d

\* f"{x:.1f}" of a quotient: the nearest tenth, ties to even
Format1f(x) ==
  IF x.d = 0 THEN NaN
  ELSE LET q == (2 * x.n + x.d) \div (2 * x.d)
           tie == (2 * x.n + x.d) % (2 * x.d) = 0
       IN  IF tie /\ q % 2 # 0 THEN q - 1 ELSE q

(***************************************************************************)
(* DataFrames: sequences of rows; the empty sequence is the empty frame    *)
(***************************************************************************)
Empty == << >>
Obs(date, value) == [date |-> date, value |-> value]

RECURSIVE InsertByDate(_, _)
InsertByDate(row, df) ==
  IF df = << >> THEN << row >>
  ELSE IF row.date < Head(df).date THEN << row >> \o df
  ELSE << Head(df) >> \o InsertByDate(row, Tail(df))

\* df.sort_values('date')
RECURSIVE SortByDate(_)
SortByDate(df) ==
  IF df = << >> THEN << >> ELSE InsertByDate(Head(df), SortByDate(Tail(df)))

\* positional access df.iloc[i], i >= 0 from the front, i < 0 from the end
ILoc(df, i) == IF i >= 0 THEN df[i + 1] ELSE df[Len(df) + i + 1]

\* number of rows of df[df['value'] > k]
RECURSIVE CountAbove(_, _)
CountAbove(df, k) ==
  IF df = << >> THEN 0
  ELSE (IF NumGt(Head(df).value, k) THEN 1 ELSE 0) + CountAbove(Tail(df), k)

\* df.loc[df.index.date >= day]
FromDate(df, day) == SelectSeq(df, LAMBDA r : r.date >= day)

(***************************************************************************)
(* What the two providers can answer                                       *)
(***************************************************************************)
SeriesIds == {"CPILFESL", "GDPC1", "UNRATE", "FEDFUNDS"}

\* The request raised, or the payload has no usable 'observations'
FredFailure == [ok |-> FALSE, observations |-> << >>]

\* A payload as FRED sends it with sort_order=desc: newest observation first.
\* The nOld oldest observations have value vOld, the nNew newest have vNew.
FredPayload(nOld, vOld, nNew, vNew) ==
  [ok |-> TRUE,
   observations |->
     [i \in 1..(nOld + nNew) |->
        LET date == nOld + nNew + 1 - i
        IN  Obs(date, IF date > nOld THEN vNew ELSE vOld)]]

FredResponses(series_id, cat) ==
  IF cat = "full" THEN
    CASE series_id = "CPILFESL" ->
           {FredFailure,
            FredPayload(StableCount, 70, FredLimit - StableCount, 30),
            FredPayload(1, 70, 1, 30),
            FredPayload(StableCount, 65, FredLimit - StableCount, 65),
            FredPayload(1, 50, 1, NaN),
            FredPayload(1, 10, 1, 30)}
      [] series_id = "GDPC1" ->
           {FredFailure,
            FredPayload(1, 201, 1, 200),
            FredPayload(1, 101, 1, 100),
            FredPayload(1, NaN, 1, 200),
            FredPayload(1, 200, 0, 200)}
      [] series_id = "UNRATE" ->
           {FredFailure,
            FredPayload(1, 60, 1, 40),
            FredPayload(1, 55, 1, 40)}
      [] series_id = "FEDFUNDS" ->
           {FredFailure,
            FredPayload(1, 85, 1, 50),
            FredPayload(1, 95, 1, 50),
            FredPayload(1, 70, 1, 50)}
  ELSE
    CASE series_id = "CPILFESL" -> {FredFailure, FredPayload(1, 10, 1, 30)}
      [] series_id = "GDPC1" -> {FredFailure, FredPayload(1, 201, 1, 200)}
      [] series_id = "UNRATE" -> {FredFailure, FredPayload(1, 60, 1, 40)}
      [] series_id = "FEDFUNDS" -> {FredFailure, FredPayload(1, 85, 1, 50)}

Quote(tnx, gspc, crb) == [tnx |-> tnx, gspc |-> gspc, crb |-> crb]

\* The 'Adj Close' table of n rows ending on day `last`, one row every `step`
\* days; every row but the last has the quotes `old`, the last row has `new`.
YahooTable(n, step, last, old, new) ==
  [i \in 1..n |->
     LET q == IF i = n THEN new ELSE old
     IN  [date |-> last - step * (n - i),
          tnx |-> q.tnx, gspc |-> q.gspc, crb |-> q.crb]]

YahooRaise == [raised |-> TRUE, table |-> Empty]
YahooAnswer(table) == [raised |-> FALSE, table |-> table]

MidRows == MinRows18mo + 1
FullRows == TradingYear + 1

YahooResponses(day, cat) ==
  IF cat = "full" THEN
    {YahooRaise,
     YahooAnswer(Empty),
     YahooAnswer(YahooTable(FewRows, ThirteenMonths, day, Quote(40, 100, 200), Quote(40, 110, 300))),
     YahooAnswer(YahooTable(MidRows, 1, day, Quote(40, 100, 200), Quote(70, 103, 300))),
     YahooAnswer(YahooTable(FullRows, 1, day, Quote(65, 100, 200), Quote(65, 105, 300))),
     YahooAnswer(YahooTable(FullRows, 3, day, Quote(40, 100, 200), Quote(70, 103, 301))),
     YahooAnswer(YahooTable(FullRows, 1, day, Quote(70, 100, 200), Quote(70, 103, 220))),
     YahooAnswer(YahooTable(FullRows, 1, day, Quote(40, 100, 200), Quote(41, 110, 210)))}
  ELSE
    {YahooRaise,
     YahooAnswer(Empty),
     YahooAnswer(YahooTable(FewRows, ThirteenMonths, day, Quote(40, 100, 200), Quote(40, 110, 300))),
     YahooAnswer(YahooTable(FullRows, 3, day, Quote(40, 100, 200), Quote(70, 103, 301)))}

(***************************************************************************)
(* State                                                                   *)
(***************************************************************************)
VARIABLES
  now,            \* wall clock, seconds
  horizon,        \* the clock does not advance past this instant
  catalog,        \* which answers the providers can give: "full" or "slim"
  fred_cache,     \* st.cache_data of fetch_fred_data: series_id -> entry
  yahoo_cache,    \* st.cache_data of fetch_yahoo_data (one argument tuple)
  pc,             \* position of the script run
  exc,            \* the exception that ended the run, or "none"
  requests,       \* network requests issued by the current run
  started,        \* clock at the start of the current run
  cpi_data, gdp_data, unemp_data, fedfunds_data, yahoo_data,
  env,            \* names bound by the current run (lines 49-131)
  last_run,       \* the run before the current one, while inside the TTL
  last_market     \* market part of the last completed run

vars == << now, horizon, catalog, fred_cache, yahoo_cache, pc, exc, requests,
           started, cpi_data, gdp_data, unemp_data, fedfunds_data, yahoo_data,
           env, last_run, last_market >>

frames == << cpi_data, gdp_data, unemp_data, fedfunds_data, yahoo_data >>
ghosts == << last_run, last_market >>
world == << now, horizon, catalog >>

NoEntry == << >>
Entry(t, v) == << [at |-> t, value |-> v] >>
\* an entry is served while it is younger than the ttl
Fresh(entry, t) == entry # NoEntry /\ t - entry[1].at < TTL

NoEnv == [k \in {} |-> 0]
Bound(e, name) == name \in DOMAIN e
Bind(e, name, v) == (name :> v) @@ e

NoRun == << >>
Rest == {"ready", "done", "error"}

(***************************************************************************)
(* Series Fetcher                                                          *)
(***************************************************************************)
\* Body of fetch_fred_data: any exception of the request, of the payload or
\* of the column access on an empty frame gives the empty frame.
fetch_fred_data(response) ==
  IF ~response.ok THEN Empty
  ELSE IF response.observations = << >> THEN Empty
  ELSE SortByDate(response.observations)

\* A call of the cached fetch_fred_data: the frame returned, the cache after
\* the call and the number of requests it issued.
FredCall(series_id) ==
  IF Fresh(fred_cache[series_id], now)
  THEN {[df |-> fred_cache[series_id][1].value, cache |-> fred_cache, reqs |-> 0]}
  ELSE {[df |-> fetch_fred_data(r),
         cache |-> [fred_cache EXCEPT ![series_id] = Entry(now, fetch_fred_data(r))],
         reqs |-> 1] : r \in FredResponses(series_id, catalog)}

\* A call of the cached fetch_yahoo_data: an exception of yf.download leaves
\* the function before anything is stored.
YahooCall ==
  IF Fresh(yahoo_cache, now)
  THEN {[raised |-> FALSE, df |-> yahoo_cache[1].value, cache |-> yahoo_cache, reqs |-> 0]}
  ELSE {[raised |-> r.raised, df |-> r.table,
         cache |-> IF r.raised THEN yahoo_cache ELSE Entry(now, r.table),
         reqs |-> 1] : r \in YahooResponses(DateOf(now), catalog)}

(***************************************************************************)
(* Metric Deriver, lines 49-99                                             *)
(***************************************************************************)
GdpLow(gdp_growth) == FracLt(gdp_growth, GdpLowBelow)
UnempRising(latest_unemp) == NumGt(latest_unemp, UnempHigh)
CpiAccelerating(latest_cpi) == NumGt(latest_cpi, CpiAccel)
\* NarrowReal with an inclusive threshold
NarrowRealInclusive(real_rate_spread) ==
  real_rate_spread # NaN /\ real_rate_spread <= SpreadBelow
NarrowReal(real_rate_spread) == NumLt(real_rate_spread, SpreadBelow)
FastRise(rise_18mo) == NumGt(rise_18mo, RiseAbove)
StocksFlat(spy_ytd) == FracLt(spy_ytd, SpyBelow)
\* CrbSurge with an inclusive threshold
CrbSurgeInclusive(crb_12mo) == crb_12mo.d > 0 /\ crb_12mo.n >= CrbAbove * crb_12mo.d
CrbSurge(crb_12mo) == FracGt(crb_12mo, CrbAbove)

cpi_block(cpi) ==
  IF cpi # Empty
  THEN [latest_cpi |-> ILoc(cpi, 0).value,
        cpi_12mo_stable |-> CountAbove(cpi, CpiHigh) >= StableCount]
  ELSE [latest_cpi |-> FallbackCpi, cpi_12mo_stable |-> FALSE]

gdp_block(gdp) ==
  IF gdp # Empty
  THEN LET latest_gdp_q == ILoc(gdp, 0).value
           gdp_growth == IF Len(gdp) > 1
                         THEN PctChange(latest_gdp_q, ILoc(gdp, 1).value)
                         ELSE OfTenths(FallbackGdpGrowth)
       IN  [latest_gdp_q |-> latest_gdp_q, gdp_growth |-> gdp_growth,
            gdp_low |-> GdpLow(gdp_growth)]
  ELSE [gdp_growth |-> OfTenths(FallbackGdpGrowth), gdp_low |-> FALSE]

unemp_block(unemp, latest_cpi) ==
  IF unemp # Empty
  THEN [latest_unemp |-> ILoc(unemp, 0).value,
        unemp_rising |-> UnempRising(ILoc(unemp, 0).value),
        cpi_accel |-> CpiAccelerating(latest_cpi)]
  ELSE [latest_unemp |-> FallbackUnemp, unemp_rising |-> FALSE, cpi_accel |-> FALSE]

fed_block(fed, latest_cpi) ==
  IF fed # Empty
  THEN LET latest_fed == ILoc(fed, 0).value
           real_rate_spread == NumSub(latest_fed, latest_cpi)
       IN  [latest_fed |-> latest_fed, real_rate_spread |-> real_rate_spread,
            narrow_real |-> NarrowReal(real_rate_spread)]
  ELSE [latest_fed |-> FallbackFed, real_rate_spread |-> FallbackSpread,
        narrow_real |-> TRUE]

\* MacroReadings falling back as one group: one failed series discards all four
MacroReadingsGrouped(cpi, gdp, unemp, fed, t) ==
  LET failed == cpi = Empty \/ gdp = Empty \/ unemp = Empty \/ fed = Empty
      c == cpi_block(IF failed THEN Empty ELSE cpi)
  IN  [today |-> DateOf(t)] @@ c @@ gdp_block(IF failed THEN Empty ELSE gdp)
        @@ unemp_block(IF failed THEN Empty ELSE unemp, c.latest_cpi)
        @@ fed_block(IF failed THEN Empty ELSE fed, c.latest_cpi)

\* lines 49-81
MacroReadings(cpi, gdp, unemp, fed, t) ==
  LET c == cpi_block(cpi)
  IN  [today |-> DateOf(t)] @@ c @@ gdp_block(gdp)
        @@ unemp_block(unemp, c.latest_cpi) @@ fed_block(fed, c.latest_cpi)

\* lines 85-93: the names the block binds, and the exception that ends it
MarketLive(df, today) ==
  LET latest_10yr == ILoc(df, -1).tnx
      ago == ILoc(df, -1).date - Days18mo
      rise_18mo == IF Len(df) > MinRows18mo
                   THEN NumSub(latest_10yr, ILoc(FromDate(df, ago), 0).tnx)
                   ELSE FallbackRise
      ytd == FromDate(df, Jan1(today))
      spy_ytd == IF Len(df) > 0
                 THEN PctChange(ILoc(df, -1).gspc, ILoc(ytd, 0).gspc)
                 ELSE OfTenths(FallbackSpy)
      crb_latest == ILoc(df, -1).crb
      crb_12mo == IF Len(df) > TradingYear
                  THEN PctChange(crb_latest, ILoc(df, -TradingYear).crb)
                  ELSE OfTenths(FallbackCrb12mo)
      first == ("_18mo_ago" :> ago)
                 @@ [latest_10yr |-> latest_10yr, rise_18mo |-> rise_18mo,
                     fast_rise |-> FastRise(rise_18mo)]
  IN  IF ytd = Empty
      THEN [exc |-> "IndexError", env |-> first]
      ELSE [exc |-> "none",
            env |-> first @@ [spy_ytd |-> spy_ytd,
                              stocks_flat |-> StocksFlat(spy_ytd),
                              crb_latest |-> crb_latest,
                              crb_12mo |-> crb_12mo,
                              crb_surge |-> CrbSurge(crb_12mo)]]

\* lines 95-99
MarketFallback ==
  [exc |-> "none",
   env |-> [latest_10yr |-> Fallback10yr, fast_rise |-> FALSE,
            stocks_flat |-> FALSE, crb_latest |-> FallbackCrbLatest,
            crb_surge |-> FALSE]]

\* MarketReadings coupled to the macro group: a failed macro fetch replaces the
\* yield reading by its constant
MarketReadingsCoupled(df, today) ==
  IF df # Empty
  THEN LET m == MarketLive(df, today)
       IN  IF cpi_data = Empty \/ gdp_data = Empty \/ unemp_data = Empty
              \/ fedfunds_data = Empty
           THEN [exc |-> m.exc, env |-> [latest_10yr |-> Fallback10yr] @@ m.env]
           ELSE m
  ELSE MarketFallback

\* lines 84-99
MarketReadings(df, today) ==
  IF df # Empty THEN MarketLive(df, today) ELSE MarketFallback

(***************************************************************************)
(* Signal Evaluator, lines 102-110                                         *)
(***************************************************************************)
\* Signals with rule 1 as the bare table predicate, without the 12-month flag
SignalsTable(e) ==
  << IF NumGt(e["latest_cpi"], CpiHigh) /\ e["gdp_low"]
       THEN "red"
       ELSE IF NumGt(e["latest_cpi"], CpiAccel) THEN "yellow" ELSE "green",
     IF NumGt(e["latest_10yr"], YieldHigh) /\ e["fast_rise"] /\ e["stocks_flat"]
       THEN "red" ELSE "green",
     IF e["crb_surge"] THEN "red" ELSE "green",
     IF e["unemp_rising"] /\ e["cpi_accel"] THEN "red" ELSE "green",
     IF e["narrow_real"] THEN "yellow" ELSE "green" >>

Signals(e) ==
  << IF NumGt(e["latest_cpi"], CpiHigh) /\ e["cpi_12mo_stable"] /\ e["gdp_low"]
       THEN "red"
       ELSE IF NumGt(e["latest_cpi"], CpiAccel) THEN "yellow" ELSE "green",
     IF NumGt(e["latest_10yr"], YieldHigh) /\ e["fast_rise"] /\ e["stocks_flat"]
       THEN "red" ELSE "green",
     IF e["crb_surge"] THEN "red" ELSE "green",
     IF e["unemp_rising"] /\ e["cpi_accel"] THEN "red" ELSE "green",
     IF e["narrow_real"] THEN "yellow" ELSE "green" >>

FlashingCount(signals) == Cardinality({i \in DOMAIN signals : signals[i] = "red"})

(***************************************************************************)
(* Status table, lines 114-131                                             *)
(***************************************************************************)
StatusNames == {"latest_cpi", "gdp_growth", "latest_10yr", "rise_18mo", "spy_ytd",
                "crb_12mo", "latest_unemp", "latest_fed", "real_rate_spread"}

\* The "Current Reading" column; the numbers are the tenths the f-strings show
CurrentReading(e) ==
  << << e["latest_cpi"], Format1f(e["gdp_growth"]) >>,
     << e["latest_10yr"], e["rise_18mo"], Format1f(e["spy_ytd"]) >>,
     << Format1f(e["crb_12mo"]) >>,
     << e["latest_unemp"], e["latest_cpi"] >>,
     << e["latest_fed"], e["real_rate_spread"] >> >>

(***************************************************************************)
(* What a run leaves behind                                                *)
(***************************************************************************)
ReadingNames == {"latest_cpi", "gdp_growth", "latest_unemp", "latest_fed",
                 "latest_10yr", "spy_ytd", "crb_12mo"}
MarketNames == {"latest_10yr", "spy_ytd", "crb_12mo"}
VerdictNames == {"signals", "flashing_count"}

Restrict(e, names) == [k \in (DOMAIN e) \cap names |-> e[k]]

\* ReadingSet and VerdictSet of a run, as far as the run got
ResultOf(e) == Restrict(e, ReadingNames \cup VerdictNames)

MacroFailed ==
  cpi_data = Empty \/ gdp_data = Empty \/ unemp_data = Empty \/ fedfunds_data = Empty

(***************************************************************************)
(* The script run, one action per block of the script                      *)
(***************************************************************************)
\* Streamlit reruns the script from the top with a fresh namespace
Rerun ==
  /\ pc \in Rest
  /\ pc' = "fetch_cpi"
  /\ exc' = "none"
  /\ requests' = 0
  /\ started' = now
  /\ env' = NoEnv
  /\ cpi_data' = Empty /\ gdp_data' = Empty /\ unemp_data' = Empty
  /\ fedfunds_data' = Empty /\ yahoo_data' = Empty
  /\ last_run' = IF pc \in {"done", "error"} /\ now - started < TTL
                 THEN << [start |-> started, outcome |-> pc,
                          result |-> ResultOf(env)] >>
                 ELSE NoRun
  /\ last_market' = IF pc = "done"
                    THEN << [yahoo |-> yahoo_data, jan1 |-> Jan1(env["today"]),
                             macro_failed |-> MacroFailed,
                             market |-> Restrict(env, MarketNames),
                             rules |-> SubSeq(env["signals"], 2, 3)] >>
                    ELSE NoRun
  /\ UNCHANGED << world, fred_cache, yahoo_cache >>

\* line 40
FetchCpi ==
  /\ pc = "fetch_cpi"
  /\ \E o \in FredCall("CPILFESL") :
       /\ cpi_data' = o.df
       /\ fred_cache' = o.cache
       /\ requests' = requests + o.reqs
  /\ pc' = "fetch_gdp"
  /\ UNCHANGED << world, yahoo_cache, exc, started, gdp_data, unemp_data,
                  fedfunds_data, yahoo_data, env, ghosts >>

\* line 41
FetchGdp ==
  /\ pc = "fetch_gdp"
  /\ \E o \in FredCall("GDPC1") :
       /\ gdp_data' = o.df
       /\ fred_cache' = o.cache
       /\ requests' = requests + o.reqs
  /\ pc' = "fetch_unemp"
  /\ UNCHANGED << world, yahoo_cache, exc, started, cpi_data, unemp_data,
                  fedfunds_data, yahoo_data, env, ghosts >>

\* line 42
FetchUnemp ==
  /\ pc = "fetch_unemp"
  /\ \E o \in FredCall("UNRATE") :
       /\ unemp_data' = o.df
       /\ fred_cache' = o.cache
       /\ requests' = requests + o.reqs
  /\ pc' = "fetch_fedfunds"
  /\ UNCHANGED << world, yahoo_cache, exc, started, cpi_data, gdp_data,
                  fedfunds_data, yahoo_data, env, ghosts >>

\* line 43
FetchFedFunds ==
  /\ pc = "fetch_fedfunds"
  /\ \E o \in FredCall("FEDFUNDS") :
       /\ fedfunds_data' = o.df
       /\ fred_cache' = o.cache
       /\ requests' = requests + o.reqs
  /\ pc' = "fetch_yahoo"
  /\ UNCHANGED << world, yahoo_cache, exc, started, cpi_data, gdp_data,
                  unemp_data, yahoo_data, env, ghosts >>

\* line 46: nothing catches an exception of fetch_yahoo_data
FetchYahoo ==
  /\ pc = "fetch_yahoo"
  /\ \E o \in YahooCall :
       /\ yahoo_data' = o.df
       /\ yahoo_cache' = o.cache
       /\ requests' = requests + o.reqs
       /\ pc' = IF o.raised THEN "error" ELSE "macro"
       /\ exc' = IF o.raised THEN "Exception" ELSE "none"
  /\ UNCHANGED << world, fred_cache, started, cpi_data, gdp_data, unemp_data,
                  fedfunds_data, env, ghosts >>

\* lines 49-81
ComputeMacro ==
  /\ pc = "macro"
  /\ env' = MacroReadings(cpi_data, gdp_data, unemp_data, fedfunds_data, now) @@ env
  /\ pc' = "market"
  /\ UNCHANGED << world, fred_cache, yahoo_cache, exc, requests, started,
                  frames, ghosts >>

\* lines 84-99
ComputeMarket ==
  /\ pc = "market"
  /\ LET m == MarketReadings(yahoo_data, env["today"])
     IN  /\ env' = m.env @@ env
         /\ exc' = m.exc
         /\ pc' = IF m.exc = "none" THEN "signals" ELSE "error"
  /\ UNCHANGED << world, fred_cache, yahoo_cache, requests, started, frames, ghosts >>

\* lines 102-111
EvaluateSignals ==
  /\ pc = "signals"
  /\ env' = [signals |-> Signals(env),
             flashing_count |-> FlashingCount(Signals(env))] @@ env
  /\ pc' = "status"
  /\ UNCHANGED << world, fred_cache, yahoo_cache, exc, requests, started,
                  frames, ghosts >>

\* lines 114-131: a name no branch has bound raises NameError
BuildStatusTable ==
  /\ pc = "status"
  /\ IF StatusNames \subseteq DOMAIN env
     THEN /\ env' = [df_status |-> CurrentReading(env)] @@ env
          /\ pc' = "done"
          /\ exc' = "none"
     ELSE /\ env' = env
          /\ pc' = "error"
          /\ exc' = "NameError"
  /\ UNCHANGED << world, fred_cache, yahoo_cache, requests, started, frames, ghosts >>

\* time passes between two runs
Tick ==
  /\ pc \in Rest
  /\ now + TickStep <= horizon
  /\ now' = now + TickStep
  /\ UNCHANGED << horizon, catalog, fred_cache, yahoo_cache, pc, exc, requests,
                  started, frames, env, ghosts >>

(***************************************************************************)
(* Specifications                                                          *)
(***************************************************************************)
InitRun ==
  /\ now = StartClock
  /\ fred_cache = [id \in SeriesIds |-> NoEntry]
  /\ yahoo_cache = NoEntry
  /\ pc = "ready"
  /\ exc = "none"
  /\ requests = 0
  /\ started = StartClock
  /\ cpi_data = Empty /\ gdp_data = Empty /\ unemp_data = Empty
  /\ fedfunds_data = Empty /\ yahoo_data = Empty
  /\ env = NoEnv
  /\ last_run = NoRun
  /\ last_market = NoRun

\* every answer of the providers, at one instant
Init == InitRun /\ catalog = "full" /\ horizon = StartClock

\* a few answers of the providers, over MaxTicks steps of the clock
InitTTL == InitRun /\ catalog = "slim" /\ horizon = StartClock + MaxTicks * TickStep

Next ==
  \/ Rerun
  \/ FetchCpi
  \/ FetchGdp
  \/ FetchUnemp
  \/ FetchFedFunds
  \/ FetchYahoo
  \/ ComputeMacro
  \/ ComputeMarket
  \/ EvaluateSignals
  \/ BuildStatusTable

NextTTL == Next \/ Tick

Spec == Init /\ [][Next]_vars
SpecTTL == InitTTL /\ [][NextTTL]_vars

(***************************************************************************)
(* Properties                                                              *)
(***************************************************************************)
Done == pc = "done"
MacroBound == Bound(env, "real_rate_spread")
Red(i) == env["signals"][i] = "red"

\* the value of the observation with the maximum date
ValueAtMaxDate(df) ==
  LET rows == {df[i] : i \in DOMAIN df}
  IN  (CHOOSE r \in rows : \A q \in rows : q.date <= r.date).value

\* the observations of the trailing 12-month window: the StableCount newest
TrailingWindow(df) ==
  LET rows == {df[i] : i \in DOMAIN df}
  IN  {r \in rows : Cardinality({q \in rows : q.date > r.date}) < StableCount}

\* the latest row dated at least a year before the last row, if any
YearAgoRows(df) ==
  LET rows == {df[i] : i \in DOMAIN df}
      old == {r \in rows : r.date <= ILoc(df, -1).date - DaysPerYear}
  IN  {r \in old : \A q \in old : q.date <= r.date}

\* C1: a refresh never ends in an exception, and when the status table is
\* built each of the seven readings and each of the five verdicts is defined.
C1_AlwaysComplete ==
  /\ pc # "error"
  /\ pc \in {"status", "done"} =>
       /\ ReadingNames \subseteq DOMAIN env
       /\ Bound(env, "signals") /\ Len(env["signals"]) = 5

\* C2 as stated: when any of the four macro fetches failed, all four macro
\* readings are the benchmark constants.
C2_GroupFallback ==
  (MacroBound /\ MacroFailed) =>
    /\ env["latest_cpi"] = FallbackCpi
    /\ env["gdp_growth"] = OfTenths(FallbackGdpGrowth)
    /\ env["latest_unemp"] = FallbackUnemp
    /\ env["latest_fed"] = FallbackFed

\* C2 amended: every macro reading falls back on its own.  The reading of a
\* series whose fetch failed is its benchmark constant; the reading of a
\* series whose fetch succeeded is taken from the first row of that series
\* (GDP growth from its first two rows, and 4.0 when it has one row only).
C2_PerSeriesFallback ==
  MacroBound =>
    /\ env["latest_cpi"] =
         IF cpi_data = Empty THEN FallbackCpi ELSE cpi_data[1].value
    /\ env["gdp_growth"] =
         IF Len(gdp_data) < 2 THEN OfTenths(FallbackGdpGrowth)
         ELSE PctChange(gdp_data[1].value, gdp_data[2].value)
    /\ env["latest_unemp"] =
         IF unemp_data = Empty THEN FallbackUnemp ELSE unemp_data[1].value
    /\ env["latest_fed"] =
         IF fedfunds_data = Empty THEN FallbackFed ELSE fedfunds_data[1].value

C2_Witness ==
  /\ MacroBound
  /\ cpi_data = Empty /\ env["latest_cpi"] = FallbackCpi
  /\ fedfunds_data # Empty /\ env["latest_fed"] # FallbackFed
  /\ Len(gdp_data) = 2 /\ env["gdp_growth"] # OfTenths(FallbackGdpGrowth)
  /\ unemp_data # Empty /\ env["latest_unemp"] # FallbackUnemp

\* the market readings of the last completed run, when it saw the same market
\* fetch result in the same calendar year
SameMarketInput ==
  /\ last_market # NoRun
  /\ last_market[1].yahoo = yahoo_data
  /\ last_market[1].jan1 = Jan1(env["today"])

SameMarketOutput ==
  /\ last_market[1].market = Restrict(env, MarketNames)
  /\ last_market[1].rules = SubSeq(env["signals"], 2, 3)

YieldAndSpyLive ==
  /\ env["latest_10yr"] = yahoo_data[Len(yahoo_data)].tnx
  /\ env["spy_ytd"] =
       PctChange(yahoo_data[Len(yahoo_data)].gspc,
                 FromDate(yahoo_data, Jan1(env["today"]))[1].gspc)

CrbLive ==
  /\ Len(yahoo_data) > TradingYear
  /\ env["crb_12mo"] =
       PctChange(yahoo_data[Len(yahoo_data)].crb,
                 yahoo_data[Len(yahoo_data) - TradingYear + 1].crb)

\* C3 as stated: with a macro failure the three market readings and rules 2
\* and 3 are what they are without it, and all three readings are derived
\* from the live market data.
C3_MarketLive ==
  (Done /\ MacroFailed) =>
    /\ SameMarketInput => SameMarketOutput
    /\ YieldAndSpyLive
    /\ CrbLive

\* C3 amended: for a fixed non-empty market fetch result the three market
\* readings and rules 2 and 3 are the same whether the macro fetches succeed
\* or fail; the yield and the S&P return are derived from the live data, and
\* the commodity change is derived from it when the result has more than 252
\* rows and is the constant 7.4 otherwise.
C3_MarketIndependent ==
  Done =>
    /\ SameMarketInput => SameMarketOutput
    /\ YieldAndSpyLive
    /\ IF Len(yahoo_data) > TradingYear THEN CrbLive
       ELSE env["crb_12mo"] = OfTenths(FallbackCrb12mo)

C3_Witness ==
  /\ Done /\ MacroFailed
  /\ SameMarketInput /\ ~last_market[1].macro_failed
  /\ SameMarketOutput
  /\ CrbLive /\ env["latest_10yr"] # Fallback10yr

\* the predicates of the rule table, over the readings
Table1 == NumGt(env["latest_cpi"], CpiHigh) /\ FracLt(env["gdp_growth"], GdpLowBelow)
Table2 == NumGt(env["latest_10yr"], YieldHigh) /\ FracLt(env["spy_ytd"], SpyBelow)
Table3 == FracGt(env["crb_12mo"], CrbAbove)
Table4 == NumGt(env["latest_unemp"], UnempHigh) /\ NumGt(env["latest_cpi"], CpiAccel)

Cpi70Gdp05 ==
  /\ env["latest_cpi"] = 70
  /\ FracEq(env["gdp_growth"], OfTenths(5))
  /\ ~Table2 /\ ~Table3 /\ ~Table4

\* C4 as stated: each of rules 1 to 4 is red exactly when its table predicate
\* holds; with Core CPI 7.0, GDP growth 0.5 and the rest green, rule 1 is red
\* and the red count is 1.
C4_TablePredicates ==
  Done =>
    /\ Red(1) <=> Table1
    /\ Red(2) <=> Table2
    /\ Red(3) <=> Table3
    /\ Red(4) <=> Table4
    /\ Cpi70Gdp05 => (Red(1) /\ env["flashing_count"] = 1)

\* C4 amended: rule 1 is red exactly when Core CPI > 6.5, the 12-month flag
\* cpi_12mo_stable holds and GDP growth < 1; rule 2 exactly when the yield is
\* > 6.5, its 18-month rise is > 2 and the S&P return is < 5; rules 3 and 4
\* exactly when their table predicates hold.  With Core CPI 7.0, GDP growth
\* 0.5, the 12-month flag set and the rest green, rule 1 is red and the red
\* count is 1.
C4_CodePredicates ==
  Done =>
    /\ Red(1) <=> (Table1 /\ env["cpi_12mo_stable"])
    /\ Red(2) <=> (Table2 /\ NumGt(env["rise_18mo"], RiseAbove))
    /\ Red(3) <=> Table3
    /\ Red(4) <=> Table4
    /\ (Cpi70Gdp05 /\ env["cpi_12mo_stable"]) => (Red(1) /\ env["flashing_count"] = 1)
    /\ env["flashing_count"] = Cardinality({i \in 1..5 : Red(i)})

C4_Witness ==
  /\ Done /\ Cpi70Gdp05 /\ env["cpi_12mo_stable"]
  /\ Red(1) /\ env["flashing_count"] = 1

\* C5: a reading exactly at its threshold makes the predicate of its rule
\* false: no rule is red with Core CPI = 6.5 or GDP growth = 1 (rule 1), yield
\* = 6.5 or S&P return = 5 (rule 2), commodity change = 50 (rule 3),
\* unemployment = 5.5 or Core CPI = 5 (rule 4), and rule 5 is not flagged with
\* Core CPI at 6.5 or 5 and Fed Funds minus Core CPI = 2.
C5_StrictThresholds ==
  Done =>
    /\ (env["latest_cpi"] = CpiHigh \/ FracEq(env["gdp_growth"], OfTenths(GdpLowBelow)))
         => ~Red(1)
    /\ (env["latest_10yr"] = YieldHigh \/ FracEq(env["spy_ytd"], OfTenths(SpyBelow)))
         => ~Red(2)
    /\ FracEq(env["crb_12mo"], OfTenths(CrbAbove)) => ~Red(3)
    /\ (env["latest_unemp"] = UnempHigh \/ env["latest_cpi"] = CpiAccel) => ~Red(4)
    /\ (/\ env["latest_cpi"] \in {CpiHigh, CpiAccel}
        /\ env["latest_fed"] - env["latest_cpi"] = SpreadBelow)
         => env["signals"][5] = "green"

C5_Witness ==
  /\ Done
  /\ env["latest_cpi"] = CpiHigh
  /\ FracEq(env["gdp_growth"], OfTenths(GdpLowBelow))
  /\ env["latest_10yr"] = YieldHigh
  /\ FracEq(env["spy_ytd"], OfTenths(SpyBelow))
  /\ FracEq(env["crb_12mo"], OfTenths(CrbAbove))
  /\ env["latest_unemp"] = UnempHigh
  /\ env["latest_fed"] - env["latest_cpi"] = SpreadBelow
  /\ env["flashing_count"] = 0 /\ env["signals"][5] = "green"

\* C6: the latest reading of every fetched macro series with at least one
\* observation is the value of its observation with the maximum date.
C6_LatestIsNewest ==
  MacroBound =>
    /\ cpi_data # Empty => env["latest_cpi"] = ValueAtMaxDate(cpi_data)
    /\ gdp_data # Empty => env["latest_gdp_q"] = ValueAtMaxDate(gdp_data)
    /\ unemp_data # Empty => env["latest_unemp"] = ValueAtMaxDate(unemp_data)
    /\ fedfunds_data # Empty => env["latest_fed"] = ValueAtMaxDate(fedfunds_data)

\* C7 as stated: a commodity series that was 200 thirteen months ago and is
\* 300 today gives a 12-month change of 50.0, and signal 3 is red.
C7_SurgeAtFifty ==
  (/\ Done
   /\ yahoo_data[Len(yahoo_data)].crb = 300
   /\ \E r \in YearAgoRows(yahoo_data) : r.crb = 200)
    => (FracEq(env["crb_12mo"], OfTenths(500)) /\ Red(3))

\* C7 amended: a commodity series of more than 252 rows whose value 252 rows
\* before the end was 200 and whose last value is 300 gives a 12-month change
\* of 50.0, shown as 50.0, and signal 3 stays green: the threshold is strict.
C7_FiftyStaysGreen ==
  (/\ Done
   /\ Len(yahoo_data) > TradingYear
   /\ yahoo_data[Len(yahoo_data)].crb = 300
   /\ yahoo_data[Len(yahoo_data) - TradingYear + 1].crb = 200)
    => /\ FracEq(env["crb_12mo"], OfTenths(500))
       /\ env["df_status"][3] = << 500 >>
       /\ env["signals"][3] = "green"

C7_Witness ==
  /\ Done
  /\ Len(yahoo_data) > TradingYear
  /\ yahoo_data[Len(yahoo_data)].crb = 300
  /\ yahoo_data[Len(yahoo_data) - TradingYear + 1].crb = 200
  /\ env["df_status"][3] = << 500 >>
  /\ env["signals"][3] = "green"

\* C8: a run that starts less than the ttl after the run before it issues no
\* network request, and its ReadingSet and VerdictSet are those of that run.
C8_Idempotent ==
  (/\ pc \in {"done", "error"}
   /\ last_run # NoRun
   /\ started - last_run[1].start < TTL)
    => /\ requests = 0
       /\ ResultOf(env) = last_run[1].result

\* C9: the spread that is shown and that decides rule 5 is the Fed Funds
\* reading minus the Core CPI reading, and rule 5 is flagged exactly when that
\* difference is < 2.
C9_SpreadIsDifference ==
  MacroBound =>
    /\ env["real_rate_spread"] = NumSub(env["latest_fed"], env["latest_cpi"])
    /\ env["narrow_real"] <=>
         NumLt(NumSub(env["latest_fed"], env["latest_cpi"]), SpreadBelow)

\* C10: cpi_12mo_stable holds exactly when the trailing 12-month window has
\* 12 observations and all of them exceed 6.5.
C10_TrailingWindowOnly ==
  MacroBound =>
    (env["cpi_12mo_stable"] <=>
       /\ Cardinality(TrailingWindow(cpi_data)) = StableCount
       /\ \A r \in TrailingWindow(cpi_data) : NumGt(r.value, CpiHigh))

====
